---- MODULE Spec2Model ----
(***************************************************************************)
(* The useWorkshop hook (frontend/src/lib/hooks/use-workshop.ts) and the   *)
(* polling helper of the workshop API client (pollSessionUntilComplete).   *)
(*                                                                         *)
(* JavaScript runs one task at a time: an async function runs without      *)
(* interruption from one await to the next.  Every action below is one     *)
(* such run.  The body of the read loop handles the lines of one transport *)
(* chunk in a single run; the model draws the lines of the chunk one by    *)
(* one while the call is at "lines", and no other action is enabled until  *)
(* the chunk ends (EndChunk) or the run reaches the awaited getSession.    *)
(* A rejection caused by AbortController.abort() is a microtask: it runs   *)
(* before any other task (Quiet).                                          *)
(*                                                                         *)
(* JavaScript values: null, undefined and '' are all modelled as "" where  *)
(* the code only tests truthiness; an absent number is 0, an absent list   *)
(* <<>>.  Timestamps are clock readings 1..MaxClock, 0 standing for an     *)
(* absent timestamp.                                                       *)
(***************************************************************************)
EXTENDS Integers, Sequences, FiniteSets, TLC

\* ------------------------------------------------------------------ bounds
MaxLen == 2
MaxClock == 2
MaxCalls == 2
MaxPollLoops == 2
MaxPollRequests == 3
MaxRelay == 4
MaxWire == 2
MaxQuizzes == 2
MaxQuestions == 2

VARIABLES
  currentSessionId,   \* useState: the selected session id ("" for null)
  isPolling,          \* useState
  isStreaming,        \* useState
  streamingMessages,  \* useState: Map key -> StreamingMessage, in insertion order
  abortControllerRef, \* useRef: 0 for null, else the call whose controller it holds
  rendered,           \* the state values the callbacks of the last render closed over
  queryCache,         \* react-query data of ['workshop-session', id]
  toast,              \* the toast message shown last ("" for none yet)
  callPc,             \* per createSessionWithStreaming call: where it stands
  sessionId,          \* per call: let sessionId
  currentEventType,   \* per call: let currentEventType
  closure,            \* per call: the currentSessionId / isPolling it closed over
  aborted,            \* the calls whose AbortController.abort() has been called
  outcome,            \* per call: how the call left its try block
  pollPc,             \* per pollSessionUntilComplete loop: where it stands
  pollSession,        \* per loop: the session id polled
  pollRequests,       \* per loop: getSession requests issued
  pollTimers,         \* per loop: setTimeout intervals elapsed
  pollResponses,      \* per loop: the statuses its getSession calls returned
  pollResult,         \* per loop: the status of the session it returned
  store,              \* the server's session store: id -> status
  event_queue,        \* the relay's queue of events not yet written to the connection
  relayOpen,          \* the relay's event loop still serves the connection
  sent,               \* what the relay has written to the connection, in order
  wire,               \* the text of the response body the reader has not returned yet
  wireEvents,         \* the events the response body was serialized from
  pending,            \* the lines of the chunk the for loop has not reached yet
  mutationPc,         \* per createSessionMutation.mutate call: where it stands
  mutationSession,    \* per mutate call: the id of the session createSession returned
  mutationAuto,       \* history: per mutate call, the autoStart its onSuccess saw
  autoRefresh,        \* useQuizzes: the autoRefresh option
  quizData,           \* useQuizzes: query.data, the quiz list fetched last
  refetchInterval,    \* useQuizzes: the interval the query refetches at (0 for false)
  questions,          \* QuizTakePage: the number of questions of the quiz, -1 while loading
  userAnswers,        \* QuizTakePage useState: question id -> answer ("" for none)
  isSubmitted,        \* QuizTakePage useState
  currentQuestionIndex, \* QuizTakePage useState
  now,                \* the clock new Date() reads
  last,               \* history: the event the step just taken applied, if it applied one
  terminalSeen,       \* history: calls that handled a session_complete or error event
  fallbackPoll,       \* history: per call, the session its catch block began polling
  pollStopped,        \* history: loops that were running when stopPolling() was called
  solo,               \* history: per key, the map built from that key's events alone
  received            \* history: per key without agent_complete, the chunks received

hookVars == <<currentSessionId, isPolling, isStreaming, streamingMessages,
              abortControllerRef, rendered, queryCache, toast>>
callVars == <<callPc, sessionId, currentEventType, closure, aborted, outcome>>
pollVars == <<pollPc, pollSession, pollRequests, pollTimers, pollResponses, pollResult>>
histVars == <<terminalSeen, fallbackPoll, pollStopped, solo, received>>
relayVars == <<event_queue, relayOpen, sent>>
serverVars == <<store, relayVars>>
wireVars == <<wire, wireEvents, pending>>
mutationVars == <<mutationPc, mutationSession, mutationAuto>>
quizzesVars == <<autoRefresh, quizData, refetchInterval>>
takeVars == <<questions, userAnswers, isSubmitted, currentQuestionIndex>>
restVars == <<mutationVars, quizzesVars, takeVars>>
vars == <<hookVars, callVars, pollVars, serverVars, restVars, wireVars, now, last, histVars>>

\* ------------------------------------------------------------------ values
CallIds == 1..MaxCalls
PollIds == 1..MaxPollLoops
AgentIds == {"A", "B"}
Rounds == {1}
Deltas == {"a"}
Contents == {"", "c"}
Timestamps == {0, 9}
calculatorCall == [tool |-> "calculator", input |-> "1+1", output |-> "2"]
ToolCallLists == {<<>>, <<calculatorCall>>}
SessionIds == {"s1", "s2"}
NoLine == [call |-> 0, type |-> "", data |-> [none |-> TRUE]]
QuestionIds == 1..MaxQuestions
\* query.data before the first answer
Undefined == <<[undefined |-> TRUE]>>

\* ------------------------------------------------------- the Map of messages
KeyOf(agent_id, round) == agent_id \o "-" \o ToString(round)

AllKeys == {KeyOf(a, r) : a \in AgentIds, r \in Rounds}

Has(m, k) == \E i \in DOMAIN m : m[i].key = k

Get(m, k) == m[CHOOSE i \in DOMAIN m : m[i].key = k].msg

MapSet(m, k, v) ==
  IF Has(m, k)
  THEN [i \in DOMAIN m |-> IF m[i].key = k THEN [key |-> k, msg |-> v] ELSE m[i]]
  ELSE Append(m, [key |-> k, msg |-> v])

Keys(m) == [i \in DOMAIN m |-> m[i].key]

\* the keys of the current map an agent_complete was applied to: only the
\* agent_complete branch gives a record its tool_calls property
CompletedKeys(m) == {m[i].key : i \in {j \in DOMAIN m : "tool_calls" \in DOMAIN m[j].msg}}

\* { ...r, ...s }
Spread(r, s) ==
  [f \in DOMAIN r \cup DOMAIN s |-> IF f \in DOMAIN s THEN s[f] ELSE r[f]]

\* data.f of a parsed payload: an absent property reads as a falsy value
Str(d, f) == IF f \in DOMAIN d THEN d[f] ELSE ""

Num(d, f) == IF f \in DOMAIN d THEN d[f] ELSE 0

List(d, f) == IF f \in DOMAIN d THEN d[f] ELSE <<>>

Or(a, b, falsy) == IF a # falsy THEN a ELSE b

\* ------------------------------------------------------------- the reducer
\* AgentStart without the has(key) test
AgentStartAlways(prev, d, t) ==
  MapSet(prev, KeyOf(Str(d, "agent_id"), Num(d, "round")),
    [agent_id |-> Str(d, "agent_id"), agent_name |-> Str(d, "agent_id"),
     content |-> "", round_number |-> Num(d, "round"),
     timestamp |-> t, isComplete |-> FALSE])

AgentStart(prev, d, t) ==
  LET key == KeyOf(Str(d, "agent_id"), Num(d, "round")) IN
  IF ~Has(prev, key)
  THEN MapSet(prev, key,
         [agent_id |-> Str(d, "agent_id"), agent_name |-> Str(d, "agent_id"),
          content |-> "", round_number |-> Num(d, "round"),
          timestamp |-> t, isComplete |-> FALSE])
  ELSE prev

\* AgentChunk creating the record in a new Map() instead of new Map(prev)
AgentChunkFresh(prev, d, t) ==
  LET key == KeyOf(Str(d, "agent_id"), Num(d, "round")) IN
  IF Has(prev, key)
  THEN MapSet(prev, key,
         Spread(Get(prev, key),
           [content |-> Get(prev, key).content \o Str(d, "chunk"), timestamp |-> t]))
  ELSE MapSet(<<>>, key,
         [agent_id |-> Str(d, "agent_id"), agent_name |-> Str(d, "agent_id"),
          content |-> Str(d, "chunk"), round_number |-> Num(d, "round"),
          timestamp |-> t, isComplete |-> FALSE])

\* AgentChunk putting the delta in front of the content
AgentChunkPrepends(prev, d, t) ==
  LET key == KeyOf(Str(d, "agent_id"), Num(d, "round")) IN
  IF Has(prev, key)
  THEN MapSet(prev, key,
         Spread(Get(prev, key),
           [content |-> Str(d, "chunk") \o Get(prev, key).content, timestamp |-> t]))
  ELSE MapSet(prev, key,
         [agent_id |-> Str(d, "agent_id"), agent_name |-> Str(d, "agent_id"),
          content |-> Str(d, "chunk"), round_number |-> Num(d, "round"),
          timestamp |-> t, isComplete |-> FALSE])

\* AgentChunk writing isComplete: false on every record it touches
AgentChunkReopens(prev, d, t) ==
  LET key == KeyOf(Str(d, "agent_id"), Num(d, "round")) IN
  IF Has(prev, key)
  THEN MapSet(prev, key,
         Spread(Get(prev, key),
           [content |-> Get(prev, key).content \o Str(d, "chunk"), timestamp |-> t,
            isComplete |-> FALSE]))
  ELSE MapSet(prev, key,
         [agent_id |-> Str(d, "agent_id"), agent_name |-> Str(d, "agent_id"),
          content |-> Str(d, "chunk"), round_number |-> Num(d, "round"),
          timestamp |-> t, isComplete |-> FALSE])

AgentChunk(prev, d, t) ==
  LET key == KeyOf(Str(d, "agent_id"), Num(d, "round")) IN
  IF Has(prev, key)
  THEN MapSet(prev, key,
         Spread(Get(prev, key),
           [content |-> Get(prev, key).content \o Str(d, "chunk"), timestamp |-> t]))
  ELSE MapSet(prev, key,
         [agent_id |-> Str(d, "agent_id"), agent_name |-> Str(d, "agent_id"),
          content |-> Str(d, "chunk"), round_number |-> Num(d, "round"),
          timestamp |-> t, isComplete |-> FALSE])

\* AgentComplete appending the full content to the chunks received
AgentCompleteAppends(prev, d, t) ==
  LET key == KeyOf(Str(d, "agent_id"), Num(d, "round"))
      before == IF Has(prev, key) THEN Get(prev, key) ELSE [content |-> "", timestamp |-> t]
  IN
  MapSet(prev, key,
    Spread(before,
      [agent_id |-> Str(d, "agent_id"), agent_name |-> Str(d, "agent_id"),
       content |-> before.content \o Str(d, "content"),
       round_number |-> Num(d, "round"),
       tool_calls |-> List(d, "tool_calls"),
       timestamp |-> Or(Num(d, "timestamp"), before.timestamp, 0),
       isComplete |-> TRUE]))

AgentComplete(prev, d, t) ==
  LET key == KeyOf(Str(d, "agent_id"), Num(d, "round")) IN
  IF Has(prev, key)
  THEN MapSet(prev, key,
         Spread(Get(prev, key),
           [content |-> Or(Str(d, "content"), Get(prev, key).content, ""),
            tool_calls |-> List(d, "tool_calls"),
            timestamp |-> Or(Num(d, "timestamp"), Get(prev, key).timestamp, 0),
            isComplete |-> TRUE]))
  ELSE MapSet(prev, key,
         [agent_id |-> Str(d, "agent_id"), agent_name |-> Str(d, "agent_id"),
          content |-> Or(Str(d, "content"), "", ""),
          round_number |-> Num(d, "round"),
          timestamp |-> Or(Num(d, "timestamp"), t, 0),
          tool_calls |-> List(d, "tool_calls"), isComplete |-> TRUE])

\* MarkAllComplete passing over the records no agent_complete has reached
MarkCompletedOnly(prev) ==
  [i \in DOMAIN prev |->
     IF "tool_calls" \in DOMAIN prev[i].msg
     THEN [key |-> prev[i].key, msg |-> Spread(prev[i].msg, [isComplete |-> TRUE])]
     ELSE prev[i]]

MarkAllComplete(prev) ==
  [i \in DOMAIN prev |->
     [key |-> prev[i].key, msg |-> Spread(prev[i].msg, [isComplete |-> TRUE])]]

\* the guards of the if / else-if chain
IsSessionCreated(t, d) == t = "session_created" /\ Str(d, "session_id") # ""

IsAgentStart(t, d) == t = "agent_start" /\ Str(d, "agent_id") # "" /\ Num(d, "round") # 0

IsAgentChunk(t, d) ==
  /\ t = "agent_chunk"
  /\ Str(d, "agent_id") # ""
  /\ Num(d, "round") # 0
  /\ Str(d, "chunk") # ""

IsAgentComplete(t, d) ==
  t = "agent_complete" /\ Str(d, "agent_id") # "" /\ Num(d, "round") # 0

IsSessionComplete(t, d) == t = "session_complete" /\ Str(d, "session_id") # ""

IsError(t, d) == t = "error" /\ Str(d, "error") # ""

\* setStreamingMessages(prev => ...) of the branch taken, if any
Reduce(prev, t, d, clock) ==
  CASE IsSessionCreated(t, d) -> prev
    [] IsAgentStart(t, d) -> AgentStart(prev, d, clock)
    [] IsAgentChunk(t, d) -> AgentChunk(prev, d, clock)
    [] IsAgentComplete(t, d) -> AgentComplete(prev, d, clock)
    [] IsSessionComplete(t, d) -> MarkAllComplete(prev)
    [] OTHER -> prev

\* ------------------------------------------------------------ input lines
EventTypes ==
  {"session_created", "agent_start", "agent_chunk", "agent_complete",
   "session_complete", "error"}

EventLine(t) == [kind |-> "event", type |-> t]

DataLine(d) == [kind |-> "data", data |-> d]

\* ': keepalive', an empty line, or any line that starts with neither prefix
OtherLine == [kind |-> "other"]

\* a data: line whose text JSON.parse rejects
BadDataLine == [kind |-> "baddata"]

\* a data: line with nothing after the prefix
EmptyDataLine == [kind |-> "emptydata"]

AgentPayloads(agents, rounds, deltas, contents, calls, stamps) ==
  {[agent_id |-> a, round |-> r] : a \in agents, r \in rounds}
  \cup {[agent_id |-> a, round |-> r, chunk |-> x] :
          a \in agents, r \in rounds, x \in deltas}
  \cup {[agent_id |-> a, round |-> r, content |-> x, tool_calls |-> tc, timestamp |-> ts] :
          a \in agents, r \in rounds, x \in contents, tc \in calls, ts \in stamps}

\* payloads the guards reject: no round, round 0, no agent_id, an empty chunk
RejectedPayloads ==
  {[agent_id |-> "A"], [agent_id |-> "A", round |-> 0], [round |-> 1],
   [agent_id |-> "A", round |-> 1, chunk |-> ""], [session_id |-> ""], [error |-> ""]}

SessionPayloads(sessions) ==
  {[session_id |-> s] : s \in sessions} \cup {[error |-> "boom"]}

LinesOf(types, payloads) ==
  {EventLine(t) : t \in types \cup {""}}
  \cup {DataLine(d) : d \in payloads}
  \cup {OtherLine, BadDataLine, EmptyDataLine}

\* --------------------------------------------------------- the hook's state
InitWith(sessions) ==
  /\ currentSessionId = ""
  /\ isPolling = FALSE
  /\ isStreaming = FALSE
  /\ streamingMessages = <<>>
  /\ abortControllerRef = 0
  /\ rendered = [currentSessionId |-> "", isPolling |-> FALSE, isStreaming |-> FALSE]
  /\ queryCache = [s \in SessionIds |-> "none"]
  /\ toast = ""
  /\ callPc = [c \in CallIds |-> "idle"]
  /\ sessionId = [c \in CallIds |-> ""]
  /\ currentEventType = [c \in CallIds |-> ""]
  /\ closure = [c \in CallIds |-> [currentSessionId |-> "", isPolling |-> FALSE]]
  /\ aborted = {}
  /\ outcome = [c \in CallIds |-> "none"]
  /\ pollPc = [p \in PollIds |-> "idle"]
  /\ pollSession = [p \in PollIds |-> ""]
  /\ pollRequests = [p \in PollIds |-> 0]
  /\ pollTimers = [p \in PollIds |-> 0]
  /\ pollResponses = [p \in PollIds |-> <<>>]
  /\ pollResult = [p \in PollIds |-> "none"]
  /\ store = sessions
  /\ event_queue = <<>>
  /\ relayOpen = TRUE
  /\ sent = <<>>
  /\ wire = <<>>
  /\ wireEvents = <<>>
  /\ pending = <<>>
  /\ mutationPc = [m \in CallIds |-> "idle"]
  /\ mutationSession = [m \in CallIds |-> ""]
  /\ mutationAuto = [m \in CallIds |-> FALSE]
  /\ autoRefresh = TRUE
  /\ quizData = Undefined
  /\ refetchInterval = 0
  /\ questions = -1
  /\ userAnswers = [q \in QuestionIds |-> ""]
  /\ isSubmitted = FALSE
  /\ currentQuestionIndex = 0
  /\ now = 1
  /\ last = NoLine
  /\ terminalSeen = {}
  /\ fallbackPoll = [c \in CallIds |-> ""]
  /\ pollStopped = {}
  /\ solo = [k \in AllKeys |-> <<>>]
  /\ received = [k \in AllKeys |-> ""]

Init == InitWith([s \in SessionIds |-> "none"])

\* no run is in the middle of a chunk and no abort rejection is pending
Quiet ==
  \A c \in CallIds :
    /\ callPc[c] # "lines"
    /\ ~(callPc[c] \in {"fetch", "read"} /\ c \in aborted)

\* ----------------------------------------------------------------- polling
CanPoll == \E p \in PollIds : pollPc[p] = "idle"

NextPoll == CHOOSE p \in PollIds : pollPc[p] = "idle" /\ \A q \in 1..(p - 1) : pollPc[q] # "idle"

\* startPolling(sid) up to its first await; stale is the isPolling it closed over
StartPollingBody(sid, stale) ==
  IF stale
  THEN UNCHANGED <<isPolling, pollVars>>
  ELSE /\ CanPoll
       /\ isPolling' = TRUE
       /\ pollPc' = [pollPc EXCEPT ![NextPoll] = "request"]
       /\ pollSession' = [pollSession EXCEPT ![NextPoll] = sid]
       /\ pollRequests' = [pollRequests EXCEPT ![NextPoll] = 1]
       /\ UNCHANGED <<pollTimers, pollResponses, pollResult>>

StartPolling(sid) ==
  /\ Quiet
  /\ StartPollingBody(sid, rendered.isPolling)
  /\ last' = NoLine
  /\ UNCHANGED <<currentSessionId, isStreaming, streamingMessages, abortControllerRef,
                 rendered, queryCache, toast, callVars, serverVars, restVars, wireVars, now, histVars>>

StopPolling ==
  /\ Quiet
  /\ isPolling' = FALSE
  /\ pollStopped' = pollStopped \cup {p \in PollIds : pollPc[p] \in {"request", "sleep"}}
  /\ last' = NoLine
  /\ UNCHANGED <<currentSessionId, isStreaming, streamingMessages, abortControllerRef,
                 rendered, queryCache, toast, callVars, pollVars, serverVars, restVars, wireVars, now,
                 terminalSeen, fallbackPoll, solo, received>>

\* IsTerminal without the failed status
IsCompleted(status) == status = "completed"

IsTerminal(status) == status = "completed" \/ status = "failed"

FinalToast(status) ==
  IF status = "completed" THEN "Discussion completed!"
  ELSE IF status = "failed" THEN "Discussion failed, please retry"
  ELSE toast

\* a getSession of the loop answers: onUpdate, then return or sleep
PollResponse(p) ==
  /\ Quiet
  /\ pollPc[p] = "request"
  /\ store[pollSession[p]] # "none"
  /\ LET session == store[pollSession[p]] IN
     /\ queryCache' = [queryCache EXCEPT ![pollSession[p]] = session]
     /\ pollResponses' = [pollResponses EXCEPT ![p] = Append(@, session)]
     /\ IF IsTerminal(session)
        THEN /\ pollPc' = [pollPc EXCEPT ![p] = "returned"]
             /\ pollResult' = [pollResult EXCEPT ![p] = session]
             /\ toast' = FinalToast(session)
             /\ isPolling' = FALSE
        ELSE /\ pollPc' = [pollPc EXCEPT ![p] = "sleep"]
             /\ UNCHANGED <<pollResult, toast, isPolling>>
  /\ last' = NoLine
  /\ UNCHANGED <<currentSessionId, isStreaming, streamingMessages, abortControllerRef,
                 rendered, callVars, pollSession, pollRequests, pollTimers, serverVars, restVars, wireVars, now,
                 histVars>>

\* PollRequestFails with the rejection escaping startPolling's try / finally
PollRequestFailsUncaught(p) ==
  /\ Quiet
  /\ pollPc[p] = "request"
  /\ pollPc' = [pollPc EXCEPT ![p] = "threw"]
  /\ last' = NoLine
  /\ UNCHANGED <<hookVars, callVars, pollSession, pollRequests, pollTimers,
                 pollResponses, pollResult, serverVars, restVars, wireVars, now, histVars>>

\* a getSession of the loop fails: the rejection leaves poll() and startPolling's try
PollRequestFails(p) ==
  /\ Quiet
  /\ pollPc[p] = "request"
  /\ pollPc' = [pollPc EXCEPT ![p] = "threw"]
  /\ toast' = "Polling error, please refresh manually"
  /\ isPolling' = FALSE
  /\ last' = NoLine
  /\ UNCHANGED <<currentSessionId, isStreaming, streamingMessages, abortControllerRef,
                 rendered, queryCache, callVars, pollSession, pollRequests, pollTimers,
                 pollResponses, pollResult, serverVars, restVars, wireVars, now, histVars>>

\* the setTimeout of the loop fires: poll() again, up to its await getSession
PollTimer(p) ==
  /\ Quiet
  /\ pollPc[p] = "sleep"
  /\ pollRequests[p] < MaxPollRequests
  /\ pollTimers' = [pollTimers EXCEPT ![p] = @ + 1]
  /\ pollRequests' = [pollRequests EXCEPT ![p] = @ + 1]
  /\ pollPc' = [pollPc EXCEPT ![p] = "request"]
  /\ last' = NoLine
  /\ UNCHANGED <<hookVars, callVars, pollSession, pollResponses, pollResult, serverVars, restVars, wireVars, now,
                 histVars>>

\* --------------------------------------------------------------- streaming
\* abortControllerRef.current.abort() of stopStreaming
AbortCurrent == IF abortControllerRef # 0 THEN aborted \cup {abortControllerRef} ELSE aborted

\* stopStreaming(): abort, drop the ref, setIsStreaming(false), new Map().
\* eventSourceRef is never assigned, so its branch never runs.
StopStreamingBody ==
  /\ aborted' = AbortCurrent
  /\ abortControllerRef' = 0
  /\ isStreaming' = FALSE
  /\ streamingMessages' = <<>>
  /\ solo' = [k \in AllKeys |-> <<>>]
  /\ received' = [k \in AllKeys |-> ""]

StopStreaming ==
  /\ Quiet
  /\ StopStreamingBody
  /\ last' = NoLine
  /\ UNCHANGED <<currentSessionId, isPolling, rendered, queryCache, toast, callPc,
                 sessionId, currentEventType, closure, outcome, pollVars, serverVars, restVars, wireVars, now,
                 terminalSeen, fallbackPoll, pollStopped>>

\* createSessionWithStreaming up to its await fetch
CreateSessionWithStreaming(c) ==
  /\ Quiet
  /\ callPc[c] = "idle"
  /\ \A b \in 1..(c - 1) : callPc[b] # "idle"
  /\ aborted' = AbortCurrent
  /\ isStreaming' = TRUE
  /\ streamingMessages' = <<>>
  /\ solo' = [k \in AllKeys |-> <<>>]
  /\ received' = [k \in AllKeys |-> ""]
  /\ abortControllerRef' = c
  /\ callPc' = [callPc EXCEPT ![c] = "fetch"]
  /\ closure' = [closure EXCEPT ![c] = [currentSessionId |-> rendered.currentSessionId,
                                        isPolling |-> rendered.isPolling]]
  /\ last' = NoLine
  /\ UNCHANGED <<currentSessionId, isPolling, rendered, queryCache, toast, sessionId,
                 currentEventType, outcome, pollVars, serverVars, restVars, wireVars, now, terminalSeen,
                 fallbackPoll, pollStopped>>

\* finally { setIsStreaming(false); abortControllerRef.current = null }
Finally(c, how) ==
  /\ isStreaming' = FALSE
  /\ abortControllerRef' = 0
  /\ callPc' = [callPc EXCEPT ![c] = "done"]
  /\ outcome' = [outcome EXCEPT ![c] = how]

\* catch of an error other than AbortError, then finally
CatchError(c) ==
  /\ toast' = "Streaming error, falling back to polling..."
  /\ IF closure[c].currentSessionId # ""
     THEN /\ StartPollingBody(closure[c].currentSessionId, closure[c].isPolling)
          /\ fallbackPoll' =
               [fallbackPoll EXCEPT ![c] =
                  IF closure[c].isPolling THEN "" ELSE closure[c].currentSessionId]
     ELSE UNCHANGED <<isPolling, pollVars, fallbackPoll>>
  /\ Finally(c, "error")
  /\ last' = NoLine
  /\ UNCHANGED <<currentSessionId, streamingMessages, rendered, queryCache, sessionId,
                 currentEventType, closure, aborted, serverVars, restVars, wireVars, now, terminalSeen,
                 pollStopped, solo, received>>

\* the fetch answers with response.ok and a body
FetchOk(c) ==
  /\ Quiet
  /\ callPc[c] = "fetch"
  /\ callPc' = [callPc EXCEPT ![c] = "read"]
  /\ last' = NoLine
  /\ UNCHANGED <<hookVars, sessionId, currentEventType, closure, aborted, outcome,
                 pollVars, serverVars, restVars, wireVars, now, histVars>>

\* the fetch rejects (network) or answers !response.ok: throw
FetchFails(c) ==
  /\ Quiet
  /\ callPc[c] = "fetch"
  /\ CatchError(c)

\* reader.read() resolves with a chunk: the for loop over its lines begins
ReadChunk(c) ==
  /\ Quiet
  /\ callPc[c] = "read"
  /\ callPc' = [callPc EXCEPT ![c] = "lines"]
  /\ last' = NoLine
  /\ UNCHANGED <<hookVars, sessionId, currentEventType, closure, aborted, outcome,
                 pollVars, serverVars, restVars, wireVars, now, histVars>>

\* reader.read() resolves with done: break, finally
ReadDone(c) ==
  /\ Quiet
  /\ callPc[c] = "read"
  /\ Finally(c, "closed")
  /\ last' = NoLine
  /\ UNCHANGED <<currentSessionId, isPolling, streamingMessages, rendered, queryCache,
                 toast, sessionId, currentEventType, closure, aborted, pollVars, serverVars, restVars, wireVars,
                 now, histVars>>

\* reader.read() rejects with a transport error
ReadFails(c) ==
  /\ Quiet
  /\ callPc[c] = "read"
  /\ CatchError(c)

\* the pending fetch or read of an aborted controller rejects with AbortError
AbortRejected(c) ==
  /\ \A b \in CallIds : callPc[b] # "lines"
  /\ callPc[c] \in {"fetch", "read"}
  /\ c \in aborted
  /\ Finally(c, "aborted")
  /\ last' = NoLine
  /\ UNCHANGED <<currentSessionId, isPolling, streamingMessages, rendered, queryCache,
                 toast, sessionId, currentEventType, closure, aborted, pollVars, serverVars, restVars, wireVars,
                 now, histVars>>

\* ------------------------------------------------- the lines of one chunk
\* line.startsWith('event:')
EventLineStep(c, lines) ==
  /\ callPc[c] = "lines"
  /\ \E line \in lines :
       /\ line.kind = "event"
       /\ currentEventType' = [currentEventType EXCEPT ![c] = line.type]
  /\ last' = NoLine
  /\ UNCHANGED <<hookVars, callPc, sessionId, closure, aborted, outcome, pollVars,
                 serverVars, restVars, now, histVars>>

\* SkippedLineStep with currentEventType = '' moved to where every line reaches it
SkippedLineResetsType(c, lines) ==
  /\ callPc[c] = "lines"
  /\ \E line \in lines :
       /\ line.kind \in {"other", "baddata", "emptydata"}
       /\ last' = [call |-> c, type |-> "", data |-> [skipped |-> line.kind]]
  /\ currentEventType' = [currentEventType EXCEPT ![c] = ""]
  /\ UNCHANGED <<hookVars, callPc, sessionId, closure, aborted, outcome, pollVars,
                 serverVars, restVars, now, histVars>>

\* a data: line that is empty (continue) or that JSON.parse rejects (inner catch),
\* or a line with neither prefix: nothing changes, the event type is kept
SkippedLineStep(c, lines) ==
  /\ callPc[c] = "lines"
  /\ \E line \in lines :
       /\ line.kind \in {"other", "baddata", "emptydata"}
       /\ last' = [call |-> c, type |-> "", data |-> [skipped |-> line.kind]]
  /\ UNCHANGED <<hookVars, callVars, pollVars, serverVars, restVars, now, histVars>>

EventToast(t, d) ==
  IF IsSessionComplete(t, d) THEN "Discussion completed!"
  ELSE IF IsError(t, d) THEN "Streaming error: " \o Str(d, "error")
  ELSE toast

IsKeyed(t, d) == IsAgentStart(t, d) \/ IsAgentChunk(t, d) \/ IsAgentComplete(t, d)

\* the maps that each key's own events build: an event with a key goes to the map
\* of its key only, a session_complete to all of them
SoloAfter(t, d) ==
  IF IsKeyed(t, d)
  THEN [solo EXCEPT ![KeyOf(d.agent_id, d.round)] = Reduce(@, t, d, now)]
  ELSE IF IsSessionComplete(t, d)
  THEN [k \in AllKeys |-> MarkAllComplete(solo[k])]
  ELSE solo

\* the deltas received per key while no agent_complete has been applied to it
ReceivedAfter(t, d) ==
  IF IsAgentComplete(t, d)
  THEN [received EXCEPT ![KeyOf(d.agent_id, d.round)] = ""]
  ELSE IF IsAgentChunk(t, d)
            /\ KeyOf(d.agent_id, d.round) \notin CompletedKeys(streamingMessages)
  THEN [received EXCEPT ![KeyOf(d.agent_id, d.round)] = @ \o d.chunk]
  ELSE received

\* the event a payload applied: the branch of the chain its guard chose
Dispatched(c, t, d) ==
  IF \/ IsSessionCreated(t, d) \/ IsAgentStart(t, d) \/ IsAgentChunk(t, d)
     \/ IsAgentComplete(t, d) \/ IsSessionComplete(t, d) \/ IsError(t, d)
  THEN [call |-> c, type |-> t, data |-> d]
  ELSE NoLine

\* line.startsWith('data:') with a payload JSON.parse accepts: the if / else-if
\* chain, then currentEventType = '' unless the run stops at await getSession
DataLineStep(c, lines) ==
  /\ callPc[c] = "lines"
  /\ \E line \in lines :
       /\ line.kind = "data"
       /\ LET d == line.data
              t == currentEventType[c]
              next == Reduce(streamingMessages, t, d, now)
          IN
          /\ IsAgentChunk(t, d) =>
               Len(Get(next, KeyOf(d.agent_id, d.round)).content) <= MaxLen
          /\ streamingMessages' = next
          /\ IF IsSessionCreated(t, d)
             THEN /\ sessionId' = [sessionId EXCEPT ![c] = d.session_id]
                  /\ currentSessionId' = d.session_id
             ELSE UNCHANGED <<sessionId, currentSessionId>>
          /\ toast' = EventToast(t, d)
          /\ IF IsSessionComplete(t, d) /\ sessionId[c] # ""
             THEN /\ callPc' = [callPc EXCEPT ![c] = "getSession"]
                  /\ UNCHANGED currentEventType
             ELSE /\ currentEventType' = [currentEventType EXCEPT ![c] = ""]
                  /\ UNCHANGED callPc
          /\ last' = Dispatched(c, t, d)
          /\ solo' = SoloAfter(t, d)
          /\ received' = ReceivedAfter(t, d)
          /\ terminalSeen' =
               IF IsSessionComplete(t, d) \/ IsError(t, d)
               THEN terminalSeen \cup {c} ELSE terminalSeen
  /\ UNCHANGED <<isPolling, isStreaming, abortControllerRef, rendered, queryCache,
                 closure, aborted, outcome, pollVars, serverVars, restVars, now, fallbackPoll,
                 pollStopped>>

\* the last line of the chunk is done: back to await reader.read()
EndChunk(c) ==
  /\ callPc[c] = "lines"
  /\ callPc' = [callPc EXCEPT ![c] = "read"]
  /\ last' = NoLine
  /\ UNCHANGED <<hookVars, sessionId, currentEventType, closure, aborted, outcome,
                 pollVars, serverVars, restVars, wireVars, now, histVars>>

\* the getSession awaited in the session_complete branch answers: setQueryData,
\* currentEventType = '', on with the lines of the chunk
GetSessionOk(c) ==
  /\ Quiet
  /\ callPc[c] = "getSession"
  /\ store[sessionId[c]] # "none"
  /\ queryCache' = [queryCache EXCEPT ![sessionId[c]] = store[sessionId[c]]]
  /\ currentEventType' = [currentEventType EXCEPT ![c] = ""]
  /\ callPc' = [callPc EXCEPT ![c] = "lines"]
  /\ last' = NoLine
  /\ UNCHANGED <<currentSessionId, isPolling, isStreaming, streamingMessages,
                 abortControllerRef, rendered, toast, sessionId, closure, aborted,
                 outcome, pollVars, serverVars, restVars, wireVars, now, histVars>>

\* it rejects: the inner catch logs, the event type is kept, on with the lines
GetSessionFails(c) ==
  /\ Quiet
  /\ callPc[c] = "getSession"
  /\ callPc' = [callPc EXCEPT ![c] = "lines"]
  /\ last' = NoLine
  /\ UNCHANGED <<hookVars, sessionId, currentEventType, closure, aborted, outcome,
                 pollVars, serverVars, restVars, wireVars, now, histVars>>

\* ------------------------------------------------------------ environment
\* React renders: the callbacks close over the new state; the cleanup of the
\* effect on [notebookId, isStreaming, stopStreaming] runs with the isStreaming
\* it closed over and calls stopStreaming() when that was true
Render ==
  /\ Quiet
  /\ rendered # [currentSessionId |-> currentSessionId, isPolling |-> isPolling,
                 isStreaming |-> isStreaming]
  /\ rendered' = [currentSessionId |-> currentSessionId, isPolling |-> isPolling,
                  isStreaming |-> isStreaming]
  /\ IF rendered.isStreaming /\ ~isStreaming
     THEN StopStreamingBody
     ELSE UNCHANGED <<aborted, abortControllerRef, isStreaming, streamingMessages,
                      solo, received>>
  /\ last' = NoLine
  /\ UNCHANGED <<currentSessionId, isPolling, queryCache, toast, callPc, sessionId,
                 currentEventType, closure, outcome, pollVars, serverVars, restVars, wireVars, now,
                 terminalSeen, fallbackPoll, pollStopped>>

\* selectSession(sessionId): setCurrentSessionId
SelectSession(s) ==
  /\ Quiet
  /\ currentSessionId' = s
  /\ last' = NoLine
  /\ UNCHANGED <<isPolling, isStreaming, streamingMessages, abortControllerRef, rendered,
                 queryCache, toast, callVars, pollVars, serverVars, restVars, wireVars, now, histVars>>

Tick ==
  /\ now < MaxClock
  /\ now' = now + 1
  /\ last' = NoLine
  /\ UNCHANGED <<hookVars, callVars, pollVars, serverVars, restVars, wireVars, histVars>>

NextStatuses(status) ==
  CASE status = "none" -> {"created"}
    [] status = "created" -> {"in_progress"}
    [] status = "in_progress" -> {"completed", "failed"}
    [] OTHER -> {}

\* the Session Orchestrator persists a session's progress
OrchestratorStep(s) ==
  /\ Quiet
  /\ \E status \in NextStatuses(store[s]) : store' = [store EXCEPT ![s] = status]
  /\ last' = NoLine
  /\ UNCHANGED <<hookVars, callVars, pollVars, relayVars, restVars, wireVars, now, histVars>>

\* ------------------------------------------------ the non-streaming path
\* createNewSession with useStreaming false: createSessionMutation.mutate(request)
Mutate(m) ==
  /\ Quiet
  /\ mutationPc[m] = "idle"
  /\ \A b \in 1..(m - 1) : mutationPc[b] # "idle"
  /\ mutationPc' = [mutationPc EXCEPT ![m] = "pending"]
  /\ last' = NoLine
  /\ UNCHANGED <<hookVars, callVars, pollVars, serverVars, mutationSession, mutationAuto,
                 quizzesVars, takeVars, wireVars, now, histVars>>

\* createSession answers with the session s it created: onSuccess, with the
\* autoStart and the startPolling of the last render
OnSuccess(m, s, auto) ==
  /\ Quiet
  /\ mutationPc[m] = "pending"
  /\ store[s] # "none"
  /\ \A b \in CallIds : mutationSession[b] # s
  /\ mutationPc' = [mutationPc EXCEPT ![m] = "success"]
  /\ mutationSession' = [mutationSession EXCEPT ![m] = s]
  /\ mutationAuto' = [mutationAuto EXCEPT ![m] = auto]
  /\ currentSessionId' = s
  /\ toast' = "Session created, starting..."
  /\ IF auto
     THEN StartPollingBody(s, rendered.isPolling)
     ELSE UNCHANGED <<isPolling, pollVars>>
  /\ last' = NoLine
  /\ UNCHANGED <<isStreaming, streamingMessages, abortControllerRef, rendered, queryCache,
                 callVars, serverVars, quizzesVars, takeVars, wireVars, now, histVars>>

\* createSession throws (!response.ok or a network error): onError
OnError(m) ==
  /\ Quiet
  /\ mutationPc[m] = "pending"
  /\ mutationPc' = [mutationPc EXCEPT ![m] = "error"]
  /\ toast' = "Failed to create session"
  /\ last' = NoLine
  /\ UNCHANGED <<currentSessionId, isPolling, isStreaming, streamingMessages,
                 abortControllerRef, rendered, queryCache, callVars, pollVars, serverVars,
                 mutationSession, mutationAuto, quizzesVars, takeVars, wireVars, now,
                 histVars>>

\* ----------------------------------------------------------- the quiz list
QuizStatuses == {"running", "completed", "failed", "pending", "submitted", "unknown", ""}

\* the quiz at position i of a list, with a status or without the property
Quizzes(i) == {[id |-> i]} \cup {[id |-> i, status |-> st] : st \in QuizStatuses}

QuizLists ==
  UNION {{list \in [1..n -> UNION {Quizzes(i) : i \in 1..n}] :
            \A i \in 1..n : list[i].id = i} : n \in 0..MaxQuizzes}

ACTIVE_QUIZ_STATUSES == {"running", "pending", "submitted"}

FAILED_QUIZ_STATUSES == {"failed"}

\* quiz.status ?? 'unknown'
StatusOrUnknown(quiz) == IF "status" \in DOMAIN quiz THEN quiz.status ELSE "unknown"

\* hasActiveQuizzes with every in place of some
hasOnlyActiveQuizzes(quizzes) ==
  \A i \in DOMAIN quizzes : StatusOrUnknown(quizzes[i]) \in ACTIVE_QUIZ_STATUSES

hasActiveQuizzes(quizzes) ==
  \E i \in DOMAIN quizzes : StatusOrUnknown(quizzes[i]) \in ACTIVE_QUIZ_STATUSES

\* the refetchInterval function of useQuizzes: 0 stands for false
RefetchIntervalOf(auto, data) ==
  IF ~auto THEN 0
  ELSE IF data = Undefined \/ Len(data) = 0 THEN 0
  ELSE IF hasActiveQuizzes(data) THEN 10000 ELSE 0

\* quiz.status || 'unknown'
StatusElseUnknown(quiz) ==
  IF "status" \in DOMAIN quiz /\ quiz.status # "" THEN quiz.status ELSE "unknown"

\* PushQuiz without its last line: a quiz of no listed status is dropped
PushQuizDropsOthers(groups, quiz) ==
  LET status == StatusElseUnknown(quiz) IN
  IF status = "running" THEN [groups EXCEPT !.running = Append(@, quiz)]
  ELSE IF status = "completed" THEN [groups EXCEPT !.completed = Append(@, quiz)]
  ELSE IF status \in FAILED_QUIZ_STATUSES THEN [groups EXCEPT !.failed = Append(@, quiz)]
  ELSE IF status = "pending" THEN [groups EXCEPT !.pending = Append(@, quiz)]
  ELSE groups

\* one step of the reduce: push the quiz on the group of its status
PushQuiz(groups, quiz) ==
  LET status == StatusElseUnknown(quiz) IN
  IF status = "running" THEN [groups EXCEPT !.running = Append(@, quiz)]
  ELSE IF status = "completed" THEN [groups EXCEPT !.completed = Append(@, quiz)]
  ELSE IF status \in FAILED_QUIZ_STATUSES THEN [groups EXCEPT !.failed = Append(@, quiz)]
  ELSE [groups EXCEPT !.pending = Append(@, quiz)]

RECURSIVE groupQuizzesByStatus(_)
groupQuizzesByStatus(quizzes) ==
  IF quizzes = <<>>
  THEN [running |-> <<>>, completed |-> <<>>, failed |-> <<>>, pending |-> <<>>]
  ELSE PushQuiz(groupQuizzesByStatus(SubSeq(quizzes, 1, Len(quizzes) - 1)),
                quizzes[Len(quizzes)])

calculateQuizStatusCounts(quizzes) ==
  LET groups == groupQuizzesByStatus(quizzes) IN
  [total |-> Len(quizzes), running |-> Len(groups.running),
   completed |-> Len(groups.completed), failed |-> Len(groups.failed),
   pending |-> Len(groups.pending)]

\* query.data ?? []
QuizzesOf(data) == IF data = Undefined THEN <<>> ELSE data

\* quizzesApi.listQuizzes answers (first fetch, invalidation, refetch on focus):
\* the data is stored and the refetch interval computed from it
ListQuizzesOk(list) ==
  /\ quizData' = list
  /\ refetchInterval' = RefetchIntervalOf(autoRefresh, list)
  /\ last' = NoLine
  /\ UNCHANGED <<hookVars, callVars, pollVars, serverVars, mutationVars, autoRefresh,
                 takeVars, wireVars, now, histVars>>

\* the interval elapses: the query refetches and the answer is stored
IntervalRefetch(list) ==
  /\ refetchInterval = 10000
  /\ ListQuizzesOk(list)

\* the component renders useQuizzes with another autoRefresh: the interval is
\* computed again from the data held
SetAutoRefresh(auto) ==
  /\ auto # autoRefresh
  /\ autoRefresh' = auto
  /\ refetchInterval' = RefetchIntervalOf(auto, quizData)
  /\ last' = NoLine
  /\ UNCHANGED <<hookVars, callVars, pollVars, serverVars, mutationVars, quizData,
                 takeVars, wireVars, now, histVars>>

\* ----------------------------------------------------------- the quiz page
\* what a question's input can report: an option, a text, or an emptied field
Answers == {"", "a", "b"}

\* useQuiz(quizId) answers with a quiz of n questions, whose ids are 1..n
QuizLoaded(n) ==
  /\ n # questions
  /\ questions' = n
  /\ last' = NoLine
  /\ UNCHANGED <<hookVars, callVars, pollVars, serverVars, mutationVars, quizzesVars,
                 userAnswers, isSubmitted, currentQuestionIndex, wireVars, now, histVars>>

\* quiz.questions?.every(q => userAnswers[q.id])
allQuestionsAnswered == \A q \in 1..questions : userAnswers[q] # ""

\* handleAnswerChange from the QuestionRenderer of the current question, which
\* is rendered while the quiz is not submitted
handleAnswerChange(questionId, answer) ==
  /\ questions >= 0
  /\ ~isSubmitted
  /\ currentQuestionIndex < questions
  /\ questionId = currentQuestionIndex + 1
  /\ userAnswers' = [userAnswers EXCEPT ![questionId] = answer]
  /\ last' = NoLine
  /\ UNCHANGED <<hookVars, callVars, pollVars, serverVars, mutationVars, quizzesVars,
                 questions, isSubmitted, currentQuestionIndex, wireVars, now, histVars>>

\* a button of the question navigation, shown for more than one question
setCurrentQuestionIndex(index) ==
  /\ ~isSubmitted
  /\ questions > 1
  /\ index \in 0..(questions - 1)
  /\ currentQuestionIndex' = index
  /\ last' = NoLine
  /\ UNCHANGED <<hookVars, callVars, pollVars, serverVars, mutationVars, quizzesVars,
                 questions, userAnswers, isSubmitted, wireVars, now, histVars>>

\* handleSubmit from a Submit button that is never disabled
handleSubmitEnabled ==
  /\ questions >= 0
  /\ ~isSubmitted
  /\ isSubmitted' = TRUE
  /\ last' = NoLine
  /\ UNCHANGED <<hookVars, callVars, pollVars, serverVars, mutationVars, quizzesVars,
                 questions, userAnswers, currentQuestionIndex, wireVars, now, histVars>>

\* handleSubmit: the Submit Quiz button is shown while the quiz is not submitted
\* and is disabled unless allQuestionsAnswered
handleSubmit ==
  /\ questions >= 0
  /\ ~isSubmitted
  /\ allQuestionsAnswered
  /\ isSubmitted' = TRUE
  /\ last' = NoLine
  /\ UNCHANGED <<hookVars, callVars, pollVars, serverVars, mutationVars, quizzesVars,
                 questions, userAnswers, currentQuestionIndex, wireVars, now, histVars>>

\* handleReset: Try Again is shown with the results
handleReset ==
  /\ questions >= 0
  /\ isSubmitted
  /\ userAnswers' = [q \in QuestionIds |-> ""]
  /\ isSubmitted' = FALSE
  /\ currentQuestionIndex' = 0
  /\ last' = NoLine
  /\ UNCHANGED <<hookVars, callVars, pollVars, serverVars, mutationVars, quizzesVars,
                 questions, wireVars, now, histVars>>

\* ------------------------------------------------- the text of the stream
\* The response body is a sequence of pieces of text: each prefix, each event
\* type and each JSON payload comes in two halves, so that a read can end
\* inside any of them; i is the position of the event the piece belongs to.
Piece(a, i, h) == [a |-> a, i |-> i, h |-> h]

Newline == Piece("\n", 0, 0)

\* event: <type> \n data: <json> \n \n
SseEvent(i) ==
  <<Piece("event:", 0, 1), Piece("event:", 0, 2), Piece("type", i, 1), Piece("type", i, 2),
    Newline,
    Piece("data:", 0, 1), Piece("data:", 0, 2), Piece("json", i, 1), Piece("json", i, 2),
    Newline, Newline>>

RECURSIVE SseText(_)
SseText(n) == IF n = 0 THEN <<>> ELSE SseText(n - 1) \o SseEvent(n)

\* chunk.split('\n')
RECURSIVE Split(_)
Split(chunk) ==
  IF \A k \in DOMAIN chunk : chunk[k] # Newline
  THEN <<chunk>>
  ELSE LET k == CHOOSE j \in DOMAIN chunk :
                  chunk[j] = Newline /\ \A l \in 1..(j - 1) : chunk[l] # Newline
       IN  <<SubSeq(chunk, 1, k - 1)>> \o Split(SubSeq(chunk, k + 1, Len(chunk)))

\* line.startsWith(prefix)
StartsWith(line, prefix) ==
  Len(line) >= 2 /\ line[1] = Piece(prefix, 0, 1) /\ line[2] = Piece(prefix, 0, 2)

\* the text is both halves of one type or of one payload
Whole(text, a) ==
  Len(text) = 2 /\ text[1] = Piece(a, text[1].i, 1) /\ text[2] = Piece(a, text[1].i, 2)

\* what the for loop makes of a line: substring(6).trim() of an event line, and
\* for a data line substring(5).trim(), the empty test and JSON.parse, which
\* rejects a payload that is cut short
ParsedLine(line) ==
  LET text == SubSeq(line, 3, Len(line)) IN
  IF StartsWith(line, "event:")
  THEN EventLine(IF text = <<>> THEN ""
                 ELSE IF Whole(text, "type") THEN wireEvents[text[1].i].type
                 ELSE "?")
  ELSE IF StartsWith(line, "data:")
  THEN IF text = <<>> THEN EmptyDataLine
       ELSE IF Whole(text, "json") THEN DataLine(wireEvents[text[1].i].data)
       ELSE BadDataLine
  ELSE OtherLine

WireEvents ==
  {[type |-> "session_created", data |-> [session_id |-> "s1"]],
   [type |-> "agent_start", data |-> [agent_id |-> "A", round |-> 1]],
   [type |-> "agent_chunk", data |-> [agent_id |-> "A", round |-> 1, chunk |-> "a"]]}

WireStreams == UNION {[1..n -> WireEvents] : n \in 1..MaxWire}

\* the server answers the fetch with the serialized events of the session
ServerStreams(c, events) ==
  /\ callPc[c] = "read"
  /\ wireEvents = <<>>
  /\ wireEvents' = events
  /\ wire' = SseText(Len(events))
  /\ last' = NoLine
  /\ UNCHANGED <<hookVars, callVars, pollVars, serverVars, restVars, pending, now, histVars>>

\* reader.read() resolves with the next bytes of the body, however many the
\* transport delivers at once; decode, split
ReadWire(c) ==
  /\ callPc[c] = "read"
  /\ \E n \in 1..Len(wire) :
       /\ pending' = [k \in DOMAIN Split(SubSeq(wire, 1, n)) |->
                        ParsedLine(Split(SubSeq(wire, 1, n))[k])]
       /\ wire' = SubSeq(wire, n + 1, Len(wire))
  /\ callPc' = [callPc EXCEPT ![c] = "lines"]
  /\ last' = NoLine
  /\ UNCHANGED <<hookVars, sessionId, currentEventType, closure, aborted, outcome,
                 pollVars, serverVars, restVars, wireEvents, now, histVars>>

\* for (const line of lines): the next line of the chunk
WireLineStep(c) ==
  /\ pending # <<>>
  /\ \/ EventLineStep(c, {Head(pending)})
     \/ DataLineStep(c, {Head(pending)})
     \/ SkippedLineStep(c, {Head(pending)})
  /\ pending' = Tail(pending)
  /\ UNCHANGED <<wire, wireEvents>>

WireEndChunk(c) ==
  /\ pending = <<>>
  /\ EndChunk(c)

\* --------------------------------------------------------- streaming relay
ProducerEvents == {"session_created", "agent_chunk", "session_complete", "error"}

TerminalEvents == {"session_complete", "error"}

Elements(q) == {q[i] : i \in DOMAIN q}

\* the queue and the connection still have room
RelayRoom == Len(event_queue) + Len(sent) < MaxRelay

\* the Session Orchestrator queues the events of the session, a session_complete
\* or error event last
ProducerEmits(e) ==
  /\ RelayRoom
  /\ (Elements(event_queue) \cup Elements(sent)) \cap TerminalEvents = {}
  /\ event_queue' = Append(event_queue, e)
  /\ last' = NoLine
  /\ UNCHANGED <<hookVars, callVars, pollVars, store, restVars, wireVars, relayOpen, sent, now, histVars>>

HeartbeatYieldsDirectly ==
  /\ RelayRoom
  /\ sent' = Append(sent, ": keepalive")
  /\ last' = NoLine
  /\ UNCHANGED <<hookVars, callVars, pollVars, store, restVars, wireVars, event_queue, relayOpen, now, histVars>>

\* heartbeat(): while True, after each sleep, event_queue.put_nowait of a heartbeat
heartbeat ==
  /\ RelayRoom
  /\ event_queue' = Append(event_queue, "heartbeat")
  /\ last' = NoLine
  /\ UNCHANGED <<hookVars, callVars, pollVars, store, restVars, wireVars, relayOpen, sent, now, histVars>>

\* what the event loop writes for an event: a comment line for a heartbeat
Yielded(event) == IF event = "heartbeat" THEN ": keepalive" ELSE event

\* the relay's event loop takes the next event off the queue, writes it to the
\* connection and ends the stream behind a session_complete or error event
RelayStep ==
  /\ relayOpen
  /\ event_queue # <<>>
  /\ sent' = Append(sent, Yielded(Head(event_queue)))
  /\ event_queue' = Tail(event_queue)
  /\ relayOpen' = (Head(event_queue) \notin TerminalEvents)
  /\ last' = NoLine
  /\ UNCHANGED <<hookVars, callVars, pollVars, store, restVars, wireVars, now, histVars>>

\* ---------------------------------------------------------- specifications
\* every payload for agent A; for agent B a start, a chunk and one agent_complete
ReducerLines ==
  LinesOf({"agent_start", "agent_chunk", "agent_complete"},
          AgentPayloads({"A"}, Rounds, Deltas, Contents, ToolCallLists, Timestamps)
            \cup AgentPayloads({"B"}, Rounds, Deltas, {"c"}, {<<>>}, {0})
            \cup RejectedPayloads)

HookLines ==
  LinesOf({"session_created", "agent_start", "session_complete", "error"},
          {[agent_id |-> "A", round |-> 1], [session_id |-> "s1"], [error |-> "boom"]})

LineStep(c, lines) ==
  \/ ReadChunk(c)
  \/ EventLineStep(c, lines) /\ UNCHANGED wireVars
  \/ DataLineStep(c, lines) /\ UNCHANGED wireVars
  \/ SkippedLineStep(c, lines) /\ UNCHANGED wireVars
  \/ EndChunk(c)

StreamStep(c, lines) ==
  \/ CreateSessionWithStreaming(c)
  \/ FetchOk(c)
  \/ FetchFails(c)
  \/ LineStep(c, lines)
  \/ GetSessionOk(c)
  \/ GetSessionFails(c)
  \/ ReadDone(c)
  \/ ReadFails(c)

PollLoopStep == \E p \in PollIds : PollResponse(p) \/ PollRequestFails(p) \/ PollTimer(p)

\* one call with its fallback polling, renders and stopStreaming()
Next ==
  \/ StreamStep(1, HookLines)
  \/ AbortRejected(1)
  \/ StopStreaming
  \/ \E s \in SessionIds : SelectSession(s)
  \/ PollLoopStep
  \/ Render
  \/ OrchestratorStep("s1")

Spec == Init /\ [][Next]_vars

\* calls that overlap, over a transport that does not fail and a session that
\* the store holds
InitOverlap == InitWith([s \in SessionIds |-> IF s = "s1" THEN "completed" ELSE "none"])

NextOverlap ==
  \/ \E c \in CallIds :
       \/ CreateSessionWithStreaming(c)
       \/ FetchOk(c)
       \/ LineStep(c, HookLines)
       \/ GetSessionOk(c)
       \/ GetSessionFails(c)
       \/ ReadDone(c)
       \/ AbortRejected(c)
  \/ StopStreaming
  \/ Render

SpecOverlap == InitOverlap /\ [][NextOverlap]_vars

\* one stream, two keys, every agent payload: the reducer
NextReducer ==
  \/ CreateSessionWithStreaming(1)
  \/ FetchOk(1)
  \/ LineStep(1, ReducerLines)
  \/ Tick

SpecReducer == Init /\ [][NextReducer]_vars

\* polling alone, started and stopped by the caller
\* two different deltas for agent A, so that their order shows in the content
ChunkLines ==
  LinesOf({"agent_start", "agent_chunk", "agent_complete"},
          AgentPayloads({"A"}, Rounds, {"a", "b"}, {"c"}, {<<>>}, {0})
            \cup AgentPayloads({"B"}, Rounds, Deltas, {"c"}, {<<>>}, {0}))

NextChunks ==
  \/ CreateSessionWithStreaming(1)
  \/ FetchOk(1)
  \/ LineStep(1, ChunkLines)
  \/ Tick

SpecChunks == Init /\ [][NextChunks]_vars

\* a session whose stream carries agent turns and then session_complete or error
SessionLines ==
  LinesOf(EventTypes,
          AgentPayloads({"A"}, Rounds, Deltas, {"c"}, {<<calculatorCall>>}, {0})
            \cup AgentPayloads({"B"}, Rounds, Deltas, {"c"}, {<<>>}, {0})
            \cup SessionPayloads({"s1"}))

NextSession ==
  \/ CreateSessionWithStreaming(1)
  \/ FetchOk(1)
  \/ LineStep(1, SessionLines)
  \/ GetSessionOk(1)
  \/ GetSessionFails(1)

SpecSession == InitOverlap /\ [][NextSession]_vars

\* a call, then a retry: streams that announce their session, report an error
\* event and may fail
RetryLines ==
  LinesOf({"session_created", "error"},
          {[session_id |-> "s1"], [session_id |-> "s2"], [error |-> "boom"]})

NextRetry ==
  \/ \E c \in CallIds :
       \/ CreateSessionWithStreaming(c)
       \/ FetchOk(c)
       \/ FetchFails(c)
       \/ LineStep(c, RetryLines)
       \/ ReadDone(c)
       \/ ReadFails(c)
       \/ AbortRejected(c)
  \/ PollLoopStep
  \/ Render
  \/ OrchestratorStep("s1")

\* one stream whose text reaches the reader in chunks of any size
NextWire ==
  \/ CreateSessionWithStreaming(1)
  \/ FetchOk(1)
  \/ \E events \in WireStreams : ServerStreams(1, events)
  \/ ReadWire(1)
  \/ WireLineStep(1)
  \/ WireEndChunk(1)

SpecWire == Init /\ [][NextWire]_vars

\* the relay of one connection: the producer, the heartbeat task, the event loop
NextRelay ==
  \/ \E e \in ProducerEvents : ProducerEmits(e)
  \/ heartbeat
  \/ RelayStep

SpecRelay == Init /\ [][NextRelay]_vars

SpecRetry == Init /\ [][NextRetry]_vars

NextPolling ==
  \/ \E s \in SessionIds : StartPolling(s)
  \/ StopPolling
  \/ PollLoopStep
  \/ Render
  \/ OrchestratorStep("s1")

SpecPolling == Init /\ [][NextPolling]_vars

\* sessions created on the non-streaming path, and the polling they start
NextMutation ==
  \/ \E m \in CallIds :
       \/ Mutate(m)
       \/ \E s \in SessionIds, auto \in BOOLEAN : OnSuccess(m, s, auto)
       \/ OnError(m)
  \/ PollLoopStep
  \/ Render
  \/ \E s \in SessionIds : OrchestratorStep(s)

SpecMutation == Init /\ [][NextMutation]_vars

\* the quiz list, fetched and refetched
NextQuizzes ==
  \/ \E list \in QuizLists : ListQuizzesOk(list)
  \/ \E list \in QuizLists : IntervalRefetch(list)
  \/ \E auto \in BOOLEAN : SetAutoRefresh(auto)

SpecQuizzes == Init /\ [][NextQuizzes]_vars

\* the quiz-taking page
NextTake ==
  \/ \E n \in 0..MaxQuestions : QuizLoaded(n)
  \/ \E q \in QuestionIds, answer \in Answers : handleAnswerChange(q, answer)
  \/ \E index \in 0..(MaxQuestions - 1) : setCurrentQuestionIndex(index)
  \/ handleSubmit
  \/ handleReset

SpecTake == Init /\ [][NextTake]_vars

\* startPolling runs for one session, each to its end
NextPollRun ==
  \/ StartPolling("s1")
  \/ PollLoopStep
  \/ Render
  \/ OrchestratorStep("s1")

SpecPollRun == Init /\ [][NextPollRun]_vars

\* ------------------------------------------------------------------ claims
KeyOfPayload(d) == KeyOf(Str(d, "agent_id"), Num(d, "round"))

ContentBefore(m, k) == IF Has(m, k) THEN Get(m, k).content ELSE ""

\* C1 as stated: whatever preceded it, an agent_complete leaves the record of its
\* key with the payload's content, the payload's tool calls and isComplete = true.
C1_ContentIsPayloadContent ==
  [][last'.type = "agent_complete" =>
       LET d == last'.data
           r == Get(streamingMessages', KeyOfPayload(d))
       IN  r.content = Str(d, "content") /\ r.isComplete /\ r.tool_calls = List(d, "tool_calls")]_vars

\* C1 amended: an agent_complete leaves the record of its key with isComplete = true,
\* the payload's tool calls, and the payload's content when that is not empty; when
\* it is empty the record keeps the content it had ("" for a new record).
C1_ContentIsPayloadContentUnlessEmpty ==
  [][last'.type = "agent_complete" =>
       LET d == last'.data
           r == Get(streamingMessages', KeyOfPayload(d))
       IN  /\ r.content = IF Str(d, "content") # "" THEN Str(d, "content")
                          ELSE ContentBefore(streamingMessages, KeyOfPayload(d))
           /\ r.isComplete
           /\ r.tool_calls = List(d, "tool_calls")]_vars

\* an agent_complete with content "c" and a tool call has just replaced the content
\* of a record that an earlier event had created
C1_Witness ==
  /\ last.type = "agent_complete"
  /\ Str(last.data, "content") = "c"
  /\ List(last.data, "tool_calls") = <<calculatorCall>>
  /\ Num(last.data, "timestamp") = 0
  /\ LET r == Get(streamingMessages, KeyOfPayload(last.data)) IN
     r.content = "c" /\ r.isComplete /\ r.timestamp < now

\* C2: once an agent_complete was applied to a key, no agent_start or agent_chunk
\* for that key changes the record's content, tool calls or isComplete.
C2_CompletedKeyIsImmutable ==
  [][last'.type \in {"agent_start", "agent_chunk"} =>
       LET k == KeyOfPayload(last'.data) IN
       k \in CompletedKeys(streamingMessages) =>
         /\ Get(streamingMessages', k).content = Get(streamingMessages, k).content
         /\ Get(streamingMessages', k).tool_calls = Get(streamingMessages, k).tool_calls
         /\ Get(streamingMessages', k).isComplete = Get(streamingMessages, k).isComplete]_vars

\* C3: once a call has handled a session_complete or error event, no line it reads
\* later changes streamingMessages or currentSessionId.
C3_NothingAppliedAfterTerminalEvent ==
  [][\A c \in CallIds :
       (c \in terminalSeen /\ callPc[c] = "lines") =>
         UNCHANGED <<streamingMessages, currentSessionId>>]_vars

\* C4: a call whose transport failed before any terminal event has begun polling
\* the session its stream announced.
C4_TransportErrorPollsTheSession ==
  \A c \in CallIds :
    (outcome[c] = "error" /\ c \notin terminalSeen /\ sessionId[c] # "") =>
      fallbackPoll[c] = sessionId[c]

\* C5: when the server closes the stream before any terminal event, the call shows
\* the failure and begins polling the session its stream announced.
C5_ClosedStreamFallsBackToPolling ==
  [][\A c \in CallIds :
       (outcome'[c] = "closed" /\ outcome[c] # "closed"
          /\ c \notin terminalSeen /\ sessionId[c] # "") =>
         /\ toast' = "Streaming error, falling back to polling..."
         /\ fallbackPoll'[c] = sessionId[c]
         /\ isPolling']_vars

\* C6: once a new call has begun, no line of an earlier call's stream changes
\* streamingMessages or currentSessionId.
C6_NoEventOfThePreviousStream ==
  [][\A b \in CallIds : \A c \in CallIds :
       (b < c /\ callPc[c] # "idle" /\ callPc[b] = "lines") =>
         UNCHANGED <<streamingMessages, currentSessionId>>]_vars

\* C7: after stopPolling(), a loop that was running issues no further getSession
\* request and writes the query cache no more.
C7_StoppedLoopIsSilent ==
  [][\A p \in pollStopped :
       /\ pollRequests'[p] = pollRequests[p]
       /\ pollResponses'[p] # pollResponses[p] => queryCache' = queryCache]_vars

\* C8: a loop returns the first response whose status is completed or failed and
\* issues no request after it; until then every response is followed by one timer
\* and one request.
C8_StopsOnTerminalStatus ==
  \A p \in PollIds :
    LET r == pollResponses[p]
        terminal == {i \in DOMAIN r : r[i] \in {"completed", "failed"}}
    IN
    /\ pollPc[p] = "returned" =>
         /\ terminal = {Len(r)}
         /\ pollResult[p] = r[Len(r)]
         /\ pollRequests[p] = Len(r)
    /\ pollPc[p] = "sleep" => terminal = {} /\ pollRequests[p] = Len(r) /\ Len(r) > 0
    /\ pollPc[p] = "request" => terminal = {} /\ pollRequests[p] = Len(r) + 1
    /\ pollPc[p] = "threw" => terminal = {} /\ pollRequests[p] = Len(r) + 1
    /\ pollPc[p] # "idle" => pollRequests[p] = pollTimers[p] + 1

\* a loop has returned after polling more than once
C8_Witness ==
  \E p \in PollIds :
    /\ pollPc[p] = "returned"
    /\ pollResult[p] = "failed"
    /\ Len(pollResponses[p]) >= 2

\* C9: no line read from a connection whose controller was aborted changes
\* streamingMessages or currentSessionId.
C9_NothingAppliedAfterAbort ==
  [][\A c \in aborted :
       callPc[c] = "lines" => UNCHANGED <<streamingMessages, currentSessionId>>]_vars

\* C10: right after an agent_start or agent_complete was applied, applying the
\* identical event again, at any later clock reading, leaves every record (content,
\* tool calls, isComplete, timestamp) and the key order as they are.
C10_ReplayChangesNothing ==
  last.type \in {"agent_start", "agent_complete"} =>
    \A t \in now..MaxClock :
      Reduce(streamingMessages, last.type, last.data, t) = streamingMessages

\* an agent_complete was applied to the first of two keys, to a record stamped
\* before the present clock reading
C10_Witness ==
  /\ last.type = "agent_complete"
  /\ Len(streamingMessages) = 2
  /\ streamingMessages[1].key = KeyOfPayload(last.data)
  /\ Num(last.data, "timestamp") = 0
  /\ streamingMessages[1].msg.timestamp < now

\* what C11 compares of a key: content, tool calls and isComplete of its record
KeyView(m, k) ==
  IF Has(m, k)
  THEN [content |-> Get(m, k).content,
        tool_calls |-> IF "tool_calls" \in DOMAIN Get(m, k)
                       THEN <<"set", Get(m, k).tool_calls>> ELSE <<"unset">>,
        isComplete |-> Get(m, k).isComplete]
  ELSE [absent |-> TRUE]

\* C11: however the events of two keys are interleaved, the record of each key has
\* the content, tool calls and isComplete that the key's own events, processed
\* alone in the same order, give it.
C11_KeysAreIndependent ==
  \A k \in AllKeys : KeyView(streamingMessages, k) = KeyView(solo[k], k)

\* B's first event came before A's, A's completion before B's latest chunk
C11_Witness ==
  /\ Len(streamingMessages) = 2
  /\ streamingMessages[1].key = "B-1"
  /\ streamingMessages[1].msg.content = "a"
  /\ streamingMessages[1].msg.timestamp = 2
  /\ streamingMessages[2].key = "A-1"
  /\ streamingMessages[2].msg.isComplete
  /\ streamingMessages[2].msg.content = "c"
  /\ streamingMessages[2].msg.timestamp = 1

\* C12: as long as no agent_complete has been applied to a key, its record holds the
\* deltas of the agent_chunk events received for the key, concatenated in arrival
\* order, and is not complete; the key has no record only if no delta was received.
C12_ContentIsTheChunksInOrder ==
  \A k \in AllKeys :
    k \notin CompletedKeys(streamingMessages) =>
      IF Has(streamingMessages, k)
      THEN /\ Get(streamingMessages, k).content = received[k]
           /\ ~Get(streamingMessages, k).isComplete
      ELSE received[k] = ""

\* two different deltas were appended to A's record while B's was completed
C12_Witness ==
  /\ Has(streamingMessages, "A-1")
  /\ "A-1" \notin CompletedKeys(streamingMessages)
  /\ Get(streamingMessages, "A-1").content = "ab"
  /\ received["A-1"] = "ab"
  /\ "B-1" \in CompletedKeys(streamingMessages)

\* C13: whenever a session_complete event is processed, the call requests the
\* persisted session (it waits for getSession), and when the answer arrives it is
\* installed in the query cache under the session id of the event.
C13_SessionCompleteFetchesTheSession ==
  [][/\ last'.type = "session_complete" => callPc'[last'.call] = "getSession"
     /\ \A c \in CallIds :
          (callPc[c] = "getSession" /\ callPc'[c] = "lines"
             /\ store[sessionId[c]] # "none") =>
            queryCache'[sessionId[c]] = store[sessionId[c]]]_vars

\* the tool calls of a record, told apart from a record that has none set
ToolCallsOf(msg) ==
  IF "tool_calls" \in DOMAIN msg THEN <<"set", msg.tool_calls>> ELSE <<"unset">>

\* C14: processing a session_complete event leaves the keys and their order, every
\* record's content and tool calls as they were, and every record complete.
C14_SessionCompleteMarksAllComplete ==
  [][last'.type = "session_complete" =>
       /\ Keys(streamingMessages') = Keys(streamingMessages)
       /\ \A i \in DOMAIN streamingMessages :
            /\ streamingMessages'[i].msg.isComplete
            /\ streamingMessages'[i].msg.content = streamingMessages[i].msg.content
            /\ ToolCallsOf(streamingMessages'[i].msg) =
                 ToolCallsOf(streamingMessages[i].msg)]_vars

\* a session_complete has just completed a record with chunks and no agent_complete,
\* next to a record that an agent_complete had given tool calls
C14_Witness ==
  /\ last.type = "session_complete"
  /\ Len(streamingMessages) = 2
  /\ \E i \in DOMAIN streamingMessages :
       /\ streamingMessages[i].key \notin CompletedKeys(streamingMessages)
       /\ streamingMessages[i].msg.content = "aa"
       /\ streamingMessages[i].msg.isComplete
  /\ \E i \in DOMAIN streamingMessages :
       ToolCallsOf(streamingMessages[i].msg) = <<"set", <<calculatorCall>>>>

\* the kind of line the step just taken skipped, "" if it skipped none
SkippedKind(l) == IF "skipped" \in DOMAIN l.data THEN l.data.skipped ELSE ""

\* C15: a data line that is empty or that JSON.parse rejects changes nothing of the
\* hook's state (streamingMessages, currentSessionId, ...) nor of the call's (its
\* sessionId, the event type the next data line is read under), and the call goes
\* on with the lines of the chunk: what follows is applied as without the line.
C15_MalformedLineIsSkipped ==
  [][SkippedKind(last') \in {"baddata", "emptydata"} =>
       /\ callPc'[last'.call] = "lines"
       /\ UNCHANGED <<hookVars, callVars, pollVars>>]_vars

\* an unparseable data line was skipped between an event: line and its data: line
C15_Witness ==
  /\ SkippedKind(last) = "baddata"
  /\ currentEventType[1] = "agent_start"
  /\ currentSessionId = "s1"
  /\ streamingMessages = <<>>

\* C16: a keepalive comment line (a line that starts with neither event: nor data:)
\* changes neither streamingMessages nor currentSessionId nor the event type the
\* next data line is read under.
C16_KeepaliveIsIgnored ==
  [][SkippedKind(last') = "other" =>
       UNCHANGED <<streamingMessages, currentSessionId, currentEventType, sessionId>>]_vars

\* a keepalive was skipped between event: session_complete and its data: line
C16_Witness ==
  /\ SkippedKind(last) = "other"
  /\ currentEventType[1] = "session_complete"
  /\ sessionId[1] = "s1"
  /\ Len(streamingMessages) = 1

\* C17: the fallback polling a call starts after its stream failed never polls a
\* session that the stream of an earlier call announced.
C17_FallbackNeverResumesAnEarlierSession ==
  \A c \in CallIds :
    fallbackPoll[c] # "" =>
      \A b \in CallIds : b < c => sessionId[b] # fallbackPoll[c]

\* the view is at rest after a stream that ended behind a session_complete or error
\* event, or after a polling loop that returned a completed or failed session
ViewTerminal ==
  /\ ~isStreaming
  /\ ~isPolling
  /\ \/ \E c \in CallIds : callPc[c] = "done" /\ c \in terminalSeen
     \/ \E p \in PollIds : pollPc[p] = "returned"

\* C18: once the view is terminal, a step that is not the start of a new
\* createSessionWithStreaming call makes neither isStreaming nor isPolling true.
C18_TerminalViewStaysAtRest ==
  [][(ViewTerminal /\ \A c \in CallIds : callPc[c] = "idle" => callPc'[c] = "idle") =>
       ~isStreaming' /\ ~isPolling']_vars

\* C19: a session switch, selectSession with an id other than the current one,
\* leaves an empty streamingMessages map.
C19_SessionSwitchDiscardsTheMap ==
  [][(currentSessionId' # currentSessionId /\ last' = NoLine) =>
       streamingMessages' = <<>>]_vars

C21_ReadStreamIsStoppable ==
  \A c \in CallIds :
    (callPc[c] \in {"read", "lines", "getSession"} /\ c \notin aborted) =>
      isStreaming /\ abortControllerRef = c

RECURSIVE Applied(_, _)
Applied(events, n) ==
  IF n = 0 THEN <<>>
  ELSE Reduce(Applied(events, n - 1), events[n].type, events[n].data, now)

RECURSIVE SessionAnnounced(_, _)
SessionAnnounced(events, n) ==
  IF n = 0 THEN ""
  ELSE IF IsSessionCreated(events[n].type, events[n].data) THEN events[n].data.session_id
  ELSE SessionAnnounced(events, n - 1)

\* the reader has returned the whole body and the loop is through its lines
WireRead == wireEvents # <<>> /\ wire = <<>> /\ pending = <<>> /\ callPc[1] = "read"

\* C22: however the body was cut into chunks, once it is read the map and the
\* session id are those of every event applied once, in order.
C22_ChunkingDoesNotMatter ==
  WireRead =>
    /\ streamingMessages = Applied(wireEvents, Len(wireEvents))
    /\ currentSessionId = SessionAnnounced(wireEvents, Len(wireEvents))

IsCompleteAt(m, k) == Has(m, k) /\ Get(m, k).isComplete

\* C23: an event of the stream leaves every record that had isComplete = true in
\* the map, still with isComplete = true.
C23_IsCompleteIsMonotonic ==
  [][last'.call # 0 =>
       \A k \in AllKeys :
         IsCompleteAt(streamingMessages, k) => IsCompleteAt(streamingMessages', k)]_vars

\* a chunk or a start was applied to a key whose record is complete
C23_Witness ==
  /\ last.type \in {"agent_start", "agent_chunk"}
  /\ IsCompleteAt(streamingMessages, KeyOfPayload(last.data))

RunningLoops == {p \in PollIds : pollPc[p] \in {"request", "sleep"}}

\* C24: at most one pollSessionUntilComplete loop is running at any time.
C24_AtMostOnePollingLoop == Cardinality(RunningLoops) <= 1

\* C25: the step that ends a polling run, by a terminal session or by a failed
\* request, leaves isPolling = false; a failed request is reported as a polling
\* error with no session returned, and its loop issues no further request.
C25_PollingRunEndsNotPolling ==
  [][\A p \in PollIds :
       /\ (p \in RunningLoops /\ pollPc'[p] \in {"returned", "threw"}) => ~isPolling'
       /\ (p \in RunningLoops /\ pollPc'[p] = "threw") =>
            /\ toast' = "Polling error, please refresh manually"
            /\ pollResult'[p] = "none"
       /\ pollPc[p] = "threw" => pollPc'[p] = "threw" /\ pollRequests'[p] = pollRequests[p]]_vars

\* a loop ended by a failed request after it had been answered once
C25_Witness ==
  \E p \in PollIds :
    /\ pollPc[p] = "threw"
    /\ pollResponses[p] # <<>>
    /\ ~isPolling
    /\ toast = "Polling error, please refresh manually"

\* the step started a polling loop for session s
BeganPolling(s) ==
  \E p \in PollIds : pollPc[p] = "idle" /\ pollPc'[p] = "request" /\ pollSession'[p] = s

\* C26: a createSession that succeeds sets currentSessionId to the id of the
\* session created and starts polling that id exactly when autoStart is true; one
\* that fails leaves currentSessionId alone and starts no polling.
C26_MutationPollsTheCreatedSession ==
  [][\A m \in CallIds :
       /\ (mutationPc[m] = "pending" /\ mutationPc'[m] = "success") =>
            /\ currentSessionId' = mutationSession'[m]
            /\ mutationAuto'[m] <=> BeganPolling(mutationSession'[m])
       /\ (mutationPc[m] = "pending" /\ mutationPc'[m] = "error") =>
            /\ currentSessionId' = currentSessionId
            /\ pollPc' = pollPc]_vars

IsActiveQuiz(quiz) ==
  "status" \in DOMAIN quiz /\ quiz.status \in {"running", "pending", "submitted"}

\* C27: the quiz list is refetched every 10 s exactly when autoRefresh is on and
\* the list fetched last holds a running, pending or submitted quiz; otherwise
\* there is no periodic refetch.
C27_RefetchesWhileAQuizIsActive ==
  LET active == /\ autoRefresh
                /\ \E i \in DOMAIN QuizzesOf(quizData) : IsActiveQuiz(QuizzesOf(quizData)[i])
  IN  /\ active => refetchInterval = 10000
      /\ ~active => refetchInterval = 0

\* a list with an active quiz and one that is not: the refetch goes on
C27_Witness ==
  /\ refetchInterval = 10000
  /\ \E i \in DOMAIN QuizzesOf(quizData) : ~IsActiveQuiz(QuizzesOf(quizData)[i])

\* the group the claim gives a quiz
GroupOf(quiz) ==
  IF "status" \in DOMAIN quiz /\ quiz.status \in {"running", "completed", "failed"}
  THEN quiz.status
  ELSE "pending"

InGroup(quizzes, group) == SelectSeq(quizzes, LAMBDA quiz : GroupOf(quiz) = group)

\* C28: each group of groupQuizzesByStatus is the input's quizzes of that group in
\* input order, every other or missing status counted as pending, and the four
\* counts of calculateQuizStatusCounts add up to the total.
C28_GroupsPartitionTheList ==
  LET quizzes == QuizzesOf(quizData)
      groups == groupQuizzesByStatus(quizzes)
      counts == calculateQuizStatusCounts(quizzes)
  IN  /\ \A group \in {"running", "completed", "failed", "pending"} :
           groups[group] = InGroup(quizzes, group)
      /\ counts.total = Len(quizzes)
      /\ counts.running + counts.completed + counts.failed + counts.pending = counts.total

\* a list whose quizzes fall in two groups, one of them for want of a listed status
C28_Witness ==
  /\ Len(QuizzesOf(quizData)) >= 2
  /\ groupQuizzesByStatus(QuizzesOf(quizData)).running # <<>>
  /\ \E i \in DOMAIN QuizzesOf(quizData) :
       StatusOrUnknown(QuizzesOf(quizData)[i]) \in {"unknown", "submitted", ""}

\* C29: isSubmitted becomes true only while every question of the quiz has a
\* non-empty answer; while it stays true the answers do not change; it becomes
\* false only with the page back at no answers and question index 0.
C29_SubmittedAnswersAreFrozen ==
  [][/\ (~isSubmitted /\ isSubmitted') =>
          questions >= 0 /\ \A q \in 1..questions : userAnswers[q] # ""
     /\ (isSubmitted /\ isSubmitted') => userAnswers' = userAnswers
     /\ (isSubmitted /\ ~isSubmitted') =>
          userAnswers' = [q \in QuestionIds |-> ""] /\ currentQuestionIndex' = 0]_vars

\* a quiz of every question submitted from its last question
C29_Witness ==
  /\ isSubmitted
  /\ questions = MaxQuestions
  /\ currentQuestionIndex = MaxQuestions - 1
  /\ \A q \in QuestionIds : userAnswers[q] # ""

====
